---- MODULE Spec2Model ----
(***************************************************************************)
(* Path-based automatic label assignment (packages/shared/src/labels/      *)
(* path-rules): the path matcher, the rule evaluator, the label merger,    *)
(* the rule store and the save of the usePathRules hook.                   *)
(*                                                                         *)
(* Strings are sequences of one-character strings, so that the string      *)
(* operations of the code (split, startsWith, toLowerCase, length) are     *)
(* computed and not assumed.                                               *)
(***************************************************************************)
EXTENDS Integers, Sequences, FiniteSets, TLC

VARIABLES
    platform,           \* process.platform
    cwd,                \* process.cwd(), an absolute path
    op,                 \* the call that produced the current state
    rulePath,           \* matchesPath: argument rulePath
    matchDir,           \* matchesPath: argument workingDirectory
    mode,               \* matchesPath: argument mode
    matched,            \* matchesPath: returned value
    workingDirectory,   \* evaluatePathRules: argument workingDirectory
    config,             \* evaluatePathRules: argument config (its rules)
    labels,             \* evaluatePathRules: argument labels (the label tree)
    matches,            \* evaluatePathRules: returned value / applyPathRuleMatches: argument
    currentLabels,      \* the session's labels, argument and result of applyPathRuleMatches
    prevLabels,         \* the session's labels before the last applyPathRuleMatches
    newLabels,          \* applyPathRuleMatches: the entries staged by the last call
    returnedArgument,   \* applyPathRuleMatches: the last call returned the reference given
    argAfter,           \* applyPathRuleMatches: what the collection given holds after the call
    runs,               \* evaluate-and-apply rounds done on the current inputs
    dirExists,          \* the workspace's labels directory exists
    file,               \* labels/path-rules.json: absent, unreadable, or its text
    loaded,             \* loadPathRulesConfig: outcome of the last call
    saveConfig,         \* savePathRulesConfig: argument config (its rules)
    savePc,             \* savePathRulesConfig: position of the call in progress
    docBefore,          \* what a load returned before the save in progress began
    madeDir,            \* savePathRulesConfig: the call in progress created the labels directory
    workspaceId,        \* usePathRules: argument workspaceId, [some, str]
    ipcResult,          \* usePathRules.save: how the awaited savePathRules call settled
    hookConfig,         \* usePathRules: the state variable config (its rules)
    hookOutcome,        \* usePathRules.save: how the returned promise settled
    isLoading,          \* usePathRules: the state variable isLoading
    pending,            \* usePathRules: the getPathRules / savePathRules calls awaited
    stores,             \* the rule set of each workspace's document
    nextSeq,            \* usePathRules: calls issued so far
    expected,           \* the result of the latest settled call for the active workspace
    expectedSeq,        \* the number of the call that gave expected
    writerPc,           \* each writer's position in its load, add, save cycle
    writerConfig,       \* each writer's rule set in memory
    serialized          \* the writers run their cycles one at a time

vars == <<platform, cwd, op, rulePath, matchDir, mode, matched, workingDirectory,
          config, labels, matches, currentLabels, prevLabels, newLabels,
          returnedArgument, argAfter, runs,
          dirExists, file, loaded, saveConfig, savePc, docBefore, madeDir, workspaceId,
          ipcResult, hookConfig, hookOutcome, isLoading, pending, stores, nextSeq,
          expected, expectedSeq, writerPc, writerConfig, serialized>>

matcherVars == <<rulePath, matchDir, mode, matched>>
evalVars == <<workingDirectory, config, labels, matches>>
applyVars == <<currentLabels, prevLabels, newLabels, returnedArgument, argAfter>>
fsVars == <<dirExists, file>>
saveVars == <<saveConfig, savePc, docBefore, madeDir>>
hookVars == <<workspaceId, ipcResult, hookConfig, hookOutcome>>
asyncVars == <<isLoading, pending, stores, nextSeq, expected, expectedSeq>>
writerVars == <<writerPc, writerConfig, serialized>>
storeVars == <<fsVars, loaded, saveVars, hookVars, asyncVars, writerVars>>

(***************************************************************************)
(* Bounds                                                                  *)
(***************************************************************************)
MaxPathDepth == 2       \* segments written in a path given to matchesPath
MaxRules == 2           \* rules in a rule set
MaxMatches == 2         \* matches handed to applyPathRuleMatches directly
MaxRuns == 2            \* evaluate-and-apply rounds on the same inputs
MaxDocEntries == 3      \* entries in the rules array of a document
MaxRequests == 3        \* getPathRules and savePathRules calls a mounted hook issues

(***************************************************************************)
(* Strings                                                                 *)
(***************************************************************************)
Dot == <<".">>
DotDot == <<".", ".">>
Slash == <<"/">>
ColonColon == <<":", ":">>

\* String.prototype.startsWith
startsWith(s, prefix) ==
    /\ Len(s) >= Len(prefix)
    /\ SubSeq(s, 1, Len(prefix)) = prefix

lowerChar(c) ==
    CASE c = "A" -> "a"
      [] c = "B" -> "b"
      [] OTHER -> c

\* String.prototype.toLowerCase
toLowerCase(s) == [i \in 1..Len(s) |-> lowerChar(s[i])]

\* String.prototype.split(sep) for a one-character separator
RECURSIVE splitChar(_, _)
splitChar(s, sep) ==
    IF s = <<>> THEN << <<>> >>
    ELSE LET rest == splitChar(Tail(s), sep) IN
         IF Head(s) = sep THEN << <<>> >> \o rest
         ELSE << <<Head(s)>> \o Head(rest) >> \o Tail(rest)

\* Array.prototype.join(sep)
RECURSIVE join(_, _)
join(parts, sep) ==
    IF parts = <<>> THEN <<>>
    ELSE IF Len(parts) = 1 THEN Head(parts)
    ELSE Head(parts) \o sep \o join(Tail(parts), sep)

(***************************************************************************)
(* The functions of Node's path module that evaluator.ts calls.  The       *)
(* win32 flavour is modelled on paths written with forward slashes and     *)
(* without a drive letter: there path.win32 resolves against the current   *)
(* drive and differs from path.posix only in the separator it prints, so   *)
(* one definition serves both platforms and the platform shows in          *)
(* normalizePath's lower-casing.                                           *)
(***************************************************************************)
\* path.isAbsolute
isAbsolute(p) == Len(p) > 0 /\ p[1] = "/"

\* normalizeString of Node's path module, on the segments of the path
RECURSIVE normalizeString(_, _, _)
normalizeString(segs, acc, allowAboveRoot) ==
    IF segs = <<>> THEN acc
    ELSE LET s == Head(segs)
             next == IF s = <<>> \/ s = Dot THEN acc
                     ELSE IF s = DotDot
                          THEN IF acc # <<>> /\ acc[Len(acc)] # DotDot
                               THEN SubSeq(acc, 1, Len(acc) - 1)
                               ELSE IF allowAboveRoot THEN Append(acc, DotDot) ELSE acc
                          ELSE Append(acc, s)
         IN normalizeString(Tail(segs), next, allowAboveRoot)

\* path.resolve(inputPath) in a process whose current directory is dir
resolve(inputPath, dir) ==
    LET own == IF inputPath = <<>> THEN <<>> ELSE inputPath \o Slash
        raw == IF isAbsolute(inputPath) THEN own ELSE dir \o Slash \o own
    IN Slash \o join(normalizeString(splitChar(raw, "/"), <<>>, FALSE), Slash)

\* path.normalize
normalize(p) ==
    IF p = <<>> THEN Dot
    ELSE LET abs == isAbsolute(p)
             trailing == p[Len(p)] = "/"
             body == join(normalizeString(splitChar(p, "/"), <<>>, ~abs), Slash)
         IN IF body = <<>>
            THEN (IF abs THEN Slash ELSE IF trailing THEN <<".", "/">> ELSE Dot)
            ELSE (IF abs THEN Slash ELSE <<>>) \o body \o (IF trailing THEN Slash ELSE <<>>)

\* the segments of a resolved path ("/" has none)
segmentsOf(resolved) ==
    IF resolved = Slash THEN <<>> ELSE splitChar(Tail(resolved), "/")

RECURSIVE commonLen(_, _)
commonLen(a, b) ==
    IF a = <<>> \/ b = <<>> \/ Head(a) # Head(b) THEN 0
    ELSE 1 + commonLen(Tail(a), Tail(b))

\* path.relative(from, to) in a process whose current directory is dir
relative(from, to, dir) ==
    LET f == resolve(from, dir)
        t == resolve(to, dir)
        fs == segmentsOf(f)
        ts == segmentsOf(t)
        k == commonLen(fs, ts)
        ups == [i \in 1..(Len(fs) - k) |-> DotDot]
    IN IF f = t THEN <<>>
       ELSE join(ups \o SubSeq(ts, k + 1, Len(ts)), Slash)

(***************************************************************************)
(* evaluator.ts: the path matcher                                          *)
(***************************************************************************)
\* normalizePath that forgets the platform
normalizePath_caseKept(inputPath, plat, dir) ==
    normalize(resolve(inputPath, dir))

normalizePath(inputPath, plat, dir) ==
    LET normalized == normalize(resolve(inputPath, dir))
    IN IF plat = "win32" THEN toLowerCase(normalized) ELSE normalized

\* matchesPath with a string-prefix test in prefix mode
matchesPath_stringPrefix(rPath, wDir, m, plat, dir) ==
    LET normalizedRule == normalizePath(rPath, plat, dir)
        normalizedWorkDir == normalizePath(wDir, plat, dir)
    IN IF m = "exact"
       THEN normalizedRule = normalizedWorkDir
       ELSE startsWith(normalizedWorkDir, normalizedRule)

\* matchesPath that applies the prefix test in both modes
matchesPath_modeIgnored(rPath, wDir, m, plat, dir) ==
    LET normalizedRule == normalizePath(rPath, plat, dir)
        normalizedWorkDir == normalizePath(wDir, plat, dir)
        rel == relative(normalizedRule, normalizedWorkDir, dir)
    IN rel = <<>> \/ (~startsWith(rel, DotDot) /\ ~isAbsolute(rel))

matchesPath(rPath, wDir, m, plat, dir) ==
    LET normalizedRule == normalizePath(rPath, plat, dir)
        normalizedWorkDir == normalizePath(wDir, plat, dir)
        rel == relative(normalizedRule, normalizedWorkDir, dir)
    IN IF m = "exact"
       THEN normalizedRule = normalizedWorkDir
       ELSE rel = <<>> \/ (~startsWith(rel, DotDot) /\ ~isAbsolute(rel))

(***************************************************************************)
(* evaluator.ts: the rule evaluator.  A rule is a record                   *)
(*   [id, path, match, labelId, value, enabled]                            *)
(* whose optional fields say whether they are present: value is            *)
(* [some, str] and enabled is "undefined", "true" or "false".  An optional *)
(* argument is [some |-> FALSE, ...] when it is not supplied.              *)
(***************************************************************************)
\* a search of the top level only
findLabelById_topLevel(nodes, labelId) ==
    \E k \in 1..Len(nodes) : nodes[k].id = labelId

\* findLabelById(labels, labelId) is not undefined; a node is [id, children]
RECURSIVE findLabelById(_, _)
findLabelById(nodes, labelId) ==
    IF nodes = <<>> THEN FALSE
    ELSE LET label == Head(nodes) IN
         \/ label.id = labelId
         \/ (label.children.some /\ findLabelById(label.children.items, labelId))
         \/ findLabelById(Tail(nodes), labelId)

\* the filter left out
enabledRulesOf_all(rules) == rules

\* config.rules.filter(rule => rule.enabled !== false)
enabledRulesOf(rules) == SelectSeq(rules, LAMBDA rule : rule.enabled # "false")

\* an unstable sort: a rule is placed before the rules of its own length
RECURSIVE insertByLength_beforeTies(_, _)
insertByLength_beforeTies(sorted, rule) ==
    IF sorted = <<>> THEN <<rule>>
    ELSE IF Len(Head(sorted).path) > Len(rule.path)
         THEN <<Head(sorted)>> \o insertByLength_beforeTies(Tail(sorted), rule)
         ELSE <<rule>> \o sorted

\* the place of a rule in an array sorted by path length, longest first:
\* behind every element that is not shorter (Array.prototype.sort is stable)
RECURSIVE insertByLength(_, _)
insertByLength(sorted, rule) ==
    IF sorted = <<>> THEN <<rule>>
    ELSE IF Len(Head(sorted).path) >= Len(rule.path)
         THEN <<Head(sorted)>> \o insertByLength(Tail(sorted), rule)
         ELSE <<rule>> \o sorted

\* [...enabledRules].sort((a, b) => b.path.length - a.path.length)
RECURSIVE sortByPathLength(_)
sortByPathLength(rules) ==
    IF rules = <<>> THEN <<>>
    ELSE insertByLength(sortByPathLength(SubSeq(rules, 1, Len(rules) - 1)), rules[Len(rules)])

\* rule.value ? `${rule.labelId}::${rule.value}` : rule.labelId
labelEntryOf(rule) ==
    IF rule.value.some /\ rule.value.str # <<>>
    THEN rule.labelId \o ColonColon \o rule.value.str
    ELSE rule.labelId

\* the loop over sortedRules; acc is <<matches, seenLabelEntries>>
RECURSIVE evaluateLoop_lastWins(_, _, _, _, _, _)
evaluateLoop_lastWins(sortedRules, acc, wDir, tree, plat, dir) ==
    IF sortedRules = <<>> THEN acc[1]
    ELSE LET rule == Head(sortedRules)
             labelEntry == labelEntryOf(rule)
             skip == \/ ~matchesPath(rule.path, wDir, rule.match, plat, dir)
                     \/ (tree.some /\ ~findLabelById(tree.items, rule.labelId))
             match == [rule |-> rule, labelEntry |-> labelEntry]
             next == IF skip THEN acc
                     ELSE IF labelEntry \in acc[2]
                     THEN << [i \in 1..Len(acc[1]) |->
                                 IF acc[1][i].labelEntry = labelEntry THEN match
                                 ELSE acc[1][i]], acc[2] >>
                     ELSE << Append(acc[1], match), acc[2] \cup {labelEntry} >>
         IN evaluateLoop_lastWins(Tail(sortedRules), next, wDir, tree, plat, dir)

RECURSIVE evaluateLoop(_, _, _, _, _, _)
evaluateLoop(sortedRules, acc, wDir, tree, plat, dir) ==
    IF sortedRules = <<>> THEN acc[1]
    ELSE LET rule == Head(sortedRules)
             labelEntry == labelEntryOf(rule)
             skip == \/ ~matchesPath(rule.path, wDir, rule.match, plat, dir)
                     \/ (tree.some /\ ~findLabelById(tree.items, rule.labelId))
                     \/ labelEntry \in acc[2]
             next == IF skip THEN acc
                     ELSE << Append(acc[1], [rule |-> rule, labelEntry |-> labelEntry]),
                             acc[2] \cup {labelEntry} >>
         IN evaluateLoop(Tail(sortedRules), next, wDir, tree, plat, dir)

rulesAfter_pruned(wDir, rules, tree, plat, dir) ==
    SelectSeq(rules, LAMBDA rule : ~tree.some \/ findLabelById(tree.items, rule.labelId))

\* config.rules after a call: the function reads it through filter, and sorts a
\* copy ([...enabledRules].sort), so it holds what it held
rulesAfter(wDir, rules, tree, plat, dir) == rules

evaluatePathRules_noEarlyReturn(wDir, rules, tree, plat, dir) ==
    evaluateLoop(sortByPathLength(enabledRulesOf(rules)), << <<>>, {} >>,
                 wDir.str, tree, plat, dir)

evaluatePathRules(wDir, rules, tree, plat, dir) ==
    IF ~wDir.some \/ wDir.str = <<>> THEN <<>>
    ELSE evaluateLoop(sortByPathLength(enabledRulesOf(rules)), << <<>>, {} >>,
                      wDir.str, tree, plat, dir)

(***************************************************************************)
(* evaluator.ts: the label merger.  The session's labels are               *)
(* [some, items]; some is FALSE when the session has no labels array.      *)
(***************************************************************************)
\* labelEntry.split('::')[0]
RECURSIVE bareIdOf(_)
bareIdOf(s) ==
    IF Len(s) < 2 THEN s
    ELSE IF startsWith(s, ColonColon) THEN <<>>
    ELSE <<Head(s)>> \o bareIdOf(Tail(s))

\* the test for a different value of the same label left out
hasExistingValue_exactOnly(existingLabels, bareId) ==
    \E l \in existingLabels : l = bareId

\* Array.from(existingLabels).some(l => l === bareId || l.startsWith(`${bareId}::`))
hasExistingValue(existingLabels, bareId) ==
    \E l \in existingLabels : l = bareId \/ startsWith(l, bareId \o ColonColon)

\* a loop that pushes every match's entry
RECURSIVE stagedBy_noCheck(_, _)
stagedBy_noCheck(existingLabels, ms) ==
    IF ms = <<>> THEN <<>>
    ELSE <<Head(ms).labelEntry>> \o stagedBy_noCheck(existingLabels, Tail(ms))

\* a loop that adds each staged entry to existingLabels
RECURSIVE stagedBy_seen(_, _)
stagedBy_seen(existingLabels, ms) ==
    IF ms = <<>> THEN <<>>
    ELSE LET entry == Head(ms).labelEntry
         IN IF entry \notin existingLabels /\ ~hasExistingValue(existingLabels, bareIdOf(entry))
            THEN <<entry>> \o stagedBy_seen(existingLabels \cup {entry}, Tail(ms))
            ELSE stagedBy_seen(existingLabels, Tail(ms))

\* the loop over matches: the entries pushed to newLabels
RECURSIVE stagedBy(_, _)
stagedBy(existingLabels, ms) ==
    IF ms = <<>> THEN <<>>
    ELSE LET entry == Head(ms).labelEntry
             rest == stagedBy(existingLabels, Tail(ms))
         IN IF entry \notin existingLabels /\ ~hasExistingValue(existingLabels, bareIdOf(entry))
            THEN <<entry>> \o rest
            ELSE rest

\* new Set(currentLabels ?? [])
existingSetOf(cur) == { cur.items[i] : i \in 1..Len(cur.items) }

\* the new entries put in front of the current ones
returnsArgument_emptyOnly(cur, ms) == Len(ms) = 0

\* the two statements `return currentLabels`: matches is empty, or nothing was staged
returnsArgument(cur, ms) ==
    Len(ms) = 0 \/ stagedBy(existingSetOf(cur), ms) = <<>>

applyPathRuleMatches_prepend(cur, ms) ==
    LET staged == stagedBy(existingSetOf(cur), ms)
    IN IF Len(ms) = 0 \/ staged = <<>> THEN cur
       ELSE [some |-> TRUE, items |-> staged \o cur.items]

applyPathRuleMatches(cur, ms) ==
    LET staged == stagedBy(existingSetOf(cur), ms)
    IN IF returnsArgument(cur, ms) THEN cur
       ELSE [some |-> TRUE, items |-> cur.items \o staged]

\* the function reads currentLabels into a new Set and a new array, and writes
\* nothing to it
argumentAfter(cur, ms) == cur

(***************************************************************************)
(* storage.ts: the rule store.  The backing document is                    *)
(*   [state, text]                                                         *)
(* with state "absent", "unreadable" or "text".  A text is a sequence of   *)
(* tokens, so that a text cut short by an interrupted write exists and is  *)
(* refused by the parser.  A raw entry of the rules array is               *)
(*   [kind, id, path, match, labelId, enabled]                             *)
(* each field a value [type, val]; a rule in memory may own a property     *)
(* whose value is undefined, which no JSON text can hold.                  *)
(***************************************************************************)
JString(v) == [type |-> "string", val |-> v]
JNumber(v) == [type |-> "number", val |-> v]
JBoolean(v) == [type |-> "boolean", val |-> v]
JNull == [type |-> "null", val |-> ""]
JMissing == [type |-> "undefined", val |-> ""]
\* a property the object owns, with the value undefined
JUndefined == [type |-> "undefined", val |-> "own"]

NoEntry == [kind |-> "null", id |-> JMissing, path |-> JMissing, match |-> JMissing,
            labelId |-> JMissing, enabled |-> JMissing]

T(tok) == [tok |-> tok, entry |-> NoEntry]
E(entry) == [tok |-> "entry", entry |-> entry]

NoFile == [state |-> "absent", text |-> <<>>]
Unreadable == [state |-> "unreadable", text |-> <<>>]
TextFile(text) == [state |-> "text", text |-> text]

stringifyProperty_asNull(v) == IF v = JUndefined THEN JNull ELSE v

\* JSON.stringify leaves out a property of an object whose value is undefined
stringifyProperty(v) == IF v = JUndefined THEN JMissing ELSE v

stringifyRule(r) ==
    [kind |-> r.kind, id |-> stringifyProperty(r.id), path |-> stringifyProperty(r.path),
     match |-> stringifyProperty(r.match), labelId |-> stringifyProperty(r.labelId),
     enabled |-> stringifyProperty(r.enabled)]

\* JSON.stringify(config, null, 2)
JSONstringify(rules) ==
    <<T("{"), T("version"), T("rules[")>>
        \o [i \in 1..Len(rules) |-> E(stringifyRule(rules[i]))]
        \o <<T("]"), T("}")>>

\* JSON.parse(content): the value, or a SyntaxError
JSONparse(text) ==
    LET n == Len(text)
        value(kind, hasRules, rules) ==
            [threw |-> FALSE, kind |-> kind, hasRules |-> hasRules, rules |-> rules]
    IN  IF /\ n >= 5
           /\ SubSeq(text, 1, 3) = <<T("{"), T("version"), T("rules[")>>
           /\ SubSeq(text, n - 1, n) = <<T("]"), T("}")>>
           /\ \A i \in 4..(n - 2) : text[i].tok = "entry"
        THEN value("object", TRUE, [i \in 1..(n - 5) |-> text[i + 3].entry])
        ELSE IF text = <<T("{"), T("version"), T("}")>> THEN value("object", FALSE, <<>>)
        ELSE IF text = <<T("[]")>> THEN value("array", FALSE, <<>>)
        ELSE IF text = <<T("null")>> THEN value("null", FALSE, <<>>)
        ELSE IF text = <<T("7")>> THEN value("number", FALSE, <<>>)
        ELSE [threw |-> TRUE, kind |-> "undefined", hasRules |-> FALSE, rules |-> <<>>]

\* createDefaultConfig()
createDefaultConfig == [version |-> 1, rules |-> <<>>]

isValidRule(rule) ==
    /\ rule.kind = "object"
    /\ rule.id.type = "string"
    /\ rule.path.type = "string"
    /\ (rule.match = JString("exact") \/ rule.match = JString("prefix"))
    /\ rule.labelId.type = "string"

RECURSIVE validRulesOf_stopAtInvalid(_)
validRulesOf_stopAtInvalid(entries) ==
    IF entries = <<>> \/ ~isValidRule(Head(entries)) THEN <<>>
    ELSE <<Head(entries)>> \o validRulesOf_stopAtInvalid(Tail(entries))

\* for (const rule of parsed.rules) { if (isValidRule(rule)) rules.push(rule) ... }
RECURSIVE validRulesOf(_)
validRulesOf(entries) ==
    IF entries = <<>> THEN <<>>
    ELSE (IF isValidRule(Head(entries)) THEN <<Head(entries)>> ELSE <<>>)
             \o validRulesOf(Tail(entries))

\* the try block of loadPathRulesConfig: what it returns, or that it threw
tryLoad(f) ==
    LET returns(c) == [threw |-> FALSE, version |-> c.version, rules |-> c.rules]
        throws == [threw |-> TRUE, version |-> 0, rules |-> <<>>]
    IN  IF f.state = "absent" THEN returns(createDefaultConfig)
        ELSE IF f.state = "unreadable" THEN throws
        ELSE LET parsed == JSONparse(f.text) IN
             IF parsed.threw THEN throws
             ELSE IF parsed.kind \notin {"object", "array"}
                  THEN returns(createDefaultConfig)
             ELSE returns([version |-> 1,
                           rules |-> IF parsed.hasRules THEN validRulesOf(parsed.rules)
                                     ELSE <<>>])

\* the document after a load: the function calls existsSync and readFileSync
\* and no writing function of fs
fileAfterLoad(f) == f

loadPathRulesConfig_default(f) == [raised |-> FALSE, version |-> 1, rules |-> <<>>]

loadPathRulesConfig_noCatch(f) ==
    LET r == tryLoad(f) IN [raised |-> r.threw, version |-> r.version, rules |-> r.rules]

\* loadPathRulesConfig: the try block and its catch
loadPathRulesConfig(f) ==
    LET r == tryLoad(f)
        c == IF r.threw THEN createDefaultConfig ELSE [version |-> r.version, rules |-> r.rules]
    IN  [raised |-> FALSE, version |-> c.version, rules |-> c.rules]

(***************************************************************************)
(* Inputs of the matcher                                                   *)
(***************************************************************************)
Platforms == {"posix", "win32"}
Modes == {"exact", "prefix"}
Cwds == { <<"/">>, <<"/", "a">> }

\* names a path segment is written with: a plain name, a name that extends
\* it, an upper-case spelling, the parent segment and a name that begins with dots
SegmentNames == { <<"a">>, <<"a", "b">>, <<"A">>, DotDot, <<".", ".", "a">> }

RECURSIVE SegLists(_)
SegLists(n) ==
    IF n = 0 THEN { <<>> }
    ELSE LET shorter == SegLists(n - 1)
         IN shorter \cup { Append(l, s) : l \in shorter, s \in SegmentNames }

\* absolute spellings of every depth, and the relative spellings of one segment
PathsOfDepth(n) ==
    { Slash \o join(l, Slash) : l \in SegLists(n) } \cup { join(l, Slash) : l \in SegLists(1) }

MatchPaths == PathsOfDepth(MaxPathDepth)

(***************************************************************************)
(* States before any call                                                  *)
(***************************************************************************)
Unset == [some |-> FALSE, str |-> <<>>]
NoTree == [some |-> FALSE, items |-> <<>>]
NoLabels == [some |-> FALSE, items |-> <<>>]

IdleMatcher ==
    /\ rulePath = <<>>
    /\ matchDir = <<>>
    /\ mode = "exact"
    /\ matched = FALSE

IdleEval ==
    /\ workingDirectory = Unset
    /\ config = <<>>
    /\ labels = NoTree
    /\ matches = <<>>

IdleApply ==
    /\ currentLabels = NoLabels
    /\ prevLabels = NoLabels
    /\ newLabels = <<>>
    /\ returnedArgument = FALSE
    /\ argAfter = NoLabels

NoWorkspace == [some |-> FALSE, str |-> ""]
Workspace(id) == [some |-> TRUE, str |-> id]

NotLoaded == [raised |-> FALSE, version |-> 0, rules |-> <<>>]

IdleHook ==
    /\ workspaceId = NoWorkspace
    /\ ipcResult = "none"
    /\ hookConfig = <<>>
    /\ hookOutcome = "none"

EmptyConfig == <<>>

IdleAsync ==
    /\ isLoading = TRUE
    /\ pending = {}
    /\ stores = <<>>
    /\ nextSeq = 0
    /\ expected = EmptyConfig
    /\ expectedSeq = 0

IdleWriters ==
    /\ writerPc = <<>>
    /\ writerConfig = <<>>
    /\ serialized = FALSE

IdleStore ==
    /\ dirExists = FALSE
    /\ file = NoFile
    /\ loaded = NotLoaded
    /\ saveConfig = <<>>
    /\ savePc = "idle"
    /\ docBefore = <<>>
    /\ madeDir = FALSE
    /\ IdleHook /\ IdleAsync /\ IdleWriters

(***************************************************************************)
(* The matcher called on its own                                           *)
(***************************************************************************)
InitMatch ==
    /\ platform \in Platforms
    /\ cwd \in Cwds
    /\ op = "init"
    /\ runs = 0
    /\ rulePath \in MatchPaths
    /\ matchDir \in MatchPaths
    /\ mode \in Modes
    /\ matched = FALSE
    /\ IdleEval /\ IdleApply /\ IdleStore

MatchesPath ==
    /\ op = "init"
    /\ matched' = matchesPath(rulePath, matchDir, mode, platform, cwd)
    /\ op' = "matchesPath"
    /\ UNCHANGED <<platform, cwd, rulePath, matchDir, mode, evalVars, applyVars, runs, storeVars>>

NextMatch == MatchesPath

SpecMatch == InitMatch /\ [][NextMatch]_vars

(***************************************************************************)
(* Inputs of the evaluator                                                 *)
(***************************************************************************)
Str(s) == [some |-> TRUE, str |-> s]
NoValue == [some |-> FALSE, str |-> <<>>]

PathA == <<"/", "a">>
PathAA == <<"/", "a", "/", "a">>
PathAAA == <<"/", "a", "/", "a", "/", "a">>
RulePaths == { PathA, PathAA }

LabelP == <<"p">>
LabelQ == <<"q">>

\* the label a rule assigns: labelId and value
RuleLabels == { <<LabelP, Str(<<"2">>)>>, <<LabelP, Str(<<"3">>)>>, <<LabelQ, NoValue>> }

\* rules without their id
RuleBodies ==
    { [path |-> p, match |-> m, labelId |-> l[1], value |-> l[2], enabled |-> e] :
        p \in RulePaths, m \in Modes, l \in RuleLabels, e \in {"undefined", "false"} }

\* rule sets of n rules; a rule's id is its place in the document, so ids are unique
withIds(bodies) ==
    [i \in 1..Len(bodies) |->
        [id |-> i, path |-> bodies[i].path, match |-> bodies[i].match,
         labelId |-> bodies[i].labelId, value |-> bodies[i].value,
         enabled |-> bodies[i].enabled]]

RECURSIVE SeqsUpTo(_, _)
SeqsUpTo(S, n) ==
    IF n = 0 THEN { <<>> }
    ELSE LET shorter == SeqsUpTo(S, n - 1)
         IN shorter \cup { Append(q, x) : q \in shorter, x \in S }

RuleSets == { withIds(b) : b \in SeqsUpTo(RuleBodies, MaxRules) }

WorkDirs == { Unset, Str(<<>>), Str(PathA), Str(PathAA), Str(PathAAA) }

Leaf(id) == [id |-> id, children |-> NoTree]

\* no tree, a tree without q, and a tree that holds p as a child of q
Trees ==
    { NoTree,
      [some |-> TRUE, items |-> << Leaf(LabelP) >>],
      [some |-> TRUE, items |-> << [id |-> LabelQ,
                                    children |-> [some |-> TRUE, items |-> << Leaf(LabelP) >>]] >>] }

(***************************************************************************)
(* The evaluator called on its own                                         *)
(***************************************************************************)
InitEval ==
    /\ platform = "posix"
    /\ cwd = Slash
    /\ op = "init"
    /\ runs = 0
    /\ workingDirectory \in WorkDirs
    /\ config \in RuleSets
    /\ labels \in Trees
    /\ matches = <<>>
    /\ IdleMatcher /\ IdleApply /\ IdleStore

\* a call of evaluatePathRules on the rule set, for the session's working directory
Evaluate ==
    /\ op \in {"init", "apply", "chdir", "createLabel", "load"}
    /\ runs < MaxRuns
    /\ matches' = evaluatePathRules(workingDirectory, config, labels, platform, cwd)
    /\ config' = rulesAfter(workingDirectory, config, labels, platform, cwd)
    /\ op' = "evaluate"
    /\ runs' = runs + 1
    /\ UNCHANGED <<platform, cwd, matcherVars, workingDirectory, labels, applyVars, storeVars>>

NextEval == Evaluate

SpecEval == InitEval /\ [][NextEval]_vars

(***************************************************************************)
(* The merger called on matches a caller supplies, call after call         *)
(***************************************************************************)
\* the labels a supplied match can carry: p, p::2, p::3 and q
ApplyLabels == RuleLabels \cup { <<LabelP, NoValue>> }

matchFor(l) ==
    LET rule == [id |-> 1, path |-> PathA, match |-> "prefix", labelId |-> l[1],
                 value |-> l[2], enabled |-> "undefined"]
    IN [rule |-> rule, labelEntry |-> labelEntryOf(rule)]

\* lists of matches with distinct label entries, as evaluatePathRules returns them
MatchLists ==
    { ms \in SeqsUpTo({ matchFor(l) : l \in ApplyLabels }, MaxMatches) :
        \A i \in 1..Len(ms), j \in 1..Len(ms) : ms[i] = ms[j] => i = j }

Labels(items) == [some |-> TRUE, items |-> items]

\* the labels of a session before any rule was applied
SessionLabels ==
    { NoLabels, Labels(<<>>), Labels(<< <<"p">> >>), Labels(<< <<"p", ":", ":", "2">> >>) }

InitApply ==
    /\ platform = "posix"
    /\ cwd = Slash
    /\ op = "call"
    /\ runs = 0
    /\ matches \in MatchLists
    /\ currentLabels \in SessionLabels
    /\ prevLabels = currentLabels
    /\ newLabels = <<>>
    /\ returnedArgument = FALSE
    /\ argAfter = currentLabels
    /\ workingDirectory = Unset /\ config = <<>> /\ labels = NoTree
    /\ IdleMatcher /\ IdleStore

\* a call of applyPathRuleMatches; the caller writes the result to the session
Apply ==
    /\ op \in {"evaluate", "call"}
    /\ prevLabels' = currentLabels
    /\ newLabels' = stagedBy(existingSetOf(currentLabels), matches)
    /\ currentLabels' = applyPathRuleMatches(currentLabels, matches)
    /\ returnedArgument' = returnsArgument(currentLabels, matches)
    /\ argAfter' = argumentAfter(currentLabels, matches)
    /\ op' = "apply"
    /\ UNCHANGED <<platform, cwd, matcherVars, evalVars, runs, storeVars>>

\* the caller has other matches to apply
Call ==
    /\ op = "apply"
    /\ \E ms \in MatchLists \ {matches} : matches' = ms
    /\ op' = "call"
    /\ UNCHANGED <<platform, cwd, matcherVars, workingDirectory, config, labels, applyVars, runs, storeVars>>

NextApply == Apply \/ Call

SpecApply == InitApply /\ [][NextApply]_vars

(***************************************************************************)
(* Evaluate and apply, repeated on the same inputs                         *)
(***************************************************************************)
\* enabled prefix rules that assign p, p::2, p::3 or q
SessionRuleBodies ==
    { [path |-> p, match |-> "prefix", labelId |-> l[1], value |-> l[2],
       enabled |-> "undefined"] : p \in RulePaths, l \in ApplyLabels }

SessionRuleSets == { withIds(b) : b \in SeqsUpTo(SessionRuleBodies, MaxRules) }

InitSession ==
    /\ platform = "posix"
    /\ cwd = Slash
    /\ op = "init"
    /\ runs = 0
    /\ workingDirectory \in WorkDirs
    /\ config \in SessionRuleSets
    /\ labels \in Trees
    /\ matches = <<>>
    /\ currentLabels \in SessionLabels
    /\ prevLabels = currentLabels
    /\ newLabels = <<>>
    /\ returnedArgument = FALSE
    /\ argAfter = currentLabels
    /\ IdleMatcher /\ IdleStore

NextSession == Evaluate \/ Apply

SpecSession == InitSession /\ [][NextSession]_vars

(***************************************************************************)
(* Inputs of the store                                                     *)
(***************************************************************************)
Entry(id, path, match, labelId) ==
    [kind |-> "object", id |-> id, path |-> path, match |-> match, labelId |-> labelId,
     enabled |-> JMissing]

EntryR1 == Entry(JString("r1"), JString("/a"), JString("prefix"), JString("p"))
EntryR2 == Entry(JString("r2"), JString("/a/a"), JString("exact"), JString("q"))
EntryNoPath == Entry(JString("r3"), JMissing, JString("prefix"), JString("p"))
EntryNoLabelId == Entry(JString("r4"), JString("/a"), JString("exact"), JMissing)
EntryGlob == Entry(JString("r5"), JString("/a"), JString("glob"), JString("p"))
EntryNumberId == Entry(JNumber("6"), JString("/a"), JString("prefix"), JString("q"))

\* entries that are rules
RuleEntries == { EntryR1, EntryR2 }

\* what the rules array of a document may hold
RawEntries ==
    RuleEntries \cup { EntryNoPath, EntryNoLabelId, EntryGlob, EntryNumberId, NoEntry }

\* texts that are not JSON
UnparsableTexts ==
    { <<>>, <<T("{")>>, <<T("{"), T("version"), T("rules["), E(EntryR1)>> }

\* texts that are JSON but hold no rules array
NoRulesTexts ==
    { <<T("null")>>, <<T("7")>>, <<T("[]")>>, <<T("{"), T("version"), T("}")>> }

Documents ==
    { NoFile, Unreadable }
        \cup { TextFile(t) : t \in UnparsableTexts \cup NoRulesTexts }
        \cup { TextFile(JSONstringify(e)) : e \in SeqsUpTo(RawEntries, MaxDocEntries) }

(***************************************************************************)
(* A load of a document in any state                                       *)
(***************************************************************************)
InitLoad ==
    /\ platform = "posix"
    /\ cwd = Slash
    /\ op = "init"
    /\ runs = 0
    /\ IdleMatcher /\ IdleEval /\ IdleApply
    /\ file \in Documents
    /\ dirExists = (file.state # "absent")
    /\ loaded = NotLoaded
    /\ saveConfig = <<>>
    /\ savePc = "idle"
    /\ docBefore = <<>>
    /\ madeDir = FALSE
    /\ IdleHook /\ IdleAsync /\ IdleWriters

\* a call of loadPathRulesConfig
Load ==
    /\ loaded' = loadPathRulesConfig(file)
    /\ file' = fileAfterLoad(file)
    /\ op' = "load"
    /\ UNCHANGED <<platform, cwd, matcherVars, evalVars, applyVars, runs, dirExists,
                   saveVars, hookVars, asyncVars, writerVars>>

NextLoad == Load

SpecLoad == InitLoad /\ [][NextLoad]_vars

(***************************************************************************)
(* A save, step by step, with loads at any point and the hook's save.      *)
(* writeFileSync opens the document with flag 'w', which empties it, and   *)
(* then writes the content piece by piece; each file system call may fail. *)
(***************************************************************************)
pcAfter_caught(ok, next) == IF ok THEN next ELSE "returned"

\* savePathRulesConfig has no try: a file system call that throws ends the call
pcAfter(ok, next) == IF ok THEN next ELSE "raised"

\* rules in memory: enabled absent, an own property that is undefined, or false
SaveRules ==
    RuleEntries \cup { [EntryR1 EXCEPT !.enabled = JUndefined],
                       [EntryR2 EXCEPT !.enabled = JBoolean("false")] }

\* rule sets given to a save
SaveConfigs == SeqsUpTo(SaveRules, MaxRules)

WorkspaceIds == { NoWorkspace, Workspace(""), Workspace("w1") }

InitSave ==
    /\ platform = "posix"
    /\ cwd = Slash
    /\ op = "init"
    /\ runs = 0
    /\ IdleMatcher /\ IdleEval /\ IdleApply
    /\ file \in { NoFile, TextFile(JSONstringify(<<>>)), TextFile(JSONstringify(<<EntryR1>>)) }
    /\ dirExists \in BOOLEAN
    /\ file.state # "absent" => dirExists
    /\ loaded = NotLoaded
    /\ saveConfig \in SaveConfigs
    /\ savePc = "idle"
    /\ docBefore = loadPathRulesConfig(file).rules
    /\ madeDir = FALSE
    /\ workspaceId \in WorkspaceIds
    /\ ipcResult = "none"
    /\ hookConfig = <<>>
    /\ hookOutcome = "none"
    /\ IdleAsync /\ IdleWriters

\* savePathRulesConfig is called: existsSync(labelsDir), mkdirSync
Save ==
    /\ savePc = "idle"
    /\ \E ok \in BOOLEAN :
          /\ savePc' = IF dirExists THEN "open" ELSE pcAfter(ok, "open")
          /\ dirExists' = (dirExists \/ ok)
          /\ madeDir' = (~dirExists /\ ok)
    /\ op' = "save"
    /\ UNCHANGED <<platform, cwd, matcherVars, evalVars, applyVars, runs, file, loaded,
                   saveConfig, docBefore, hookVars, asyncVars, writerVars>>

\* writeFileSync opens the document for writing
Open ==
    /\ savePc = "open"
    /\ \E ok \in BOOLEAN :
          /\ savePc' = pcAfter(ok, "write")
          /\ file' = IF ok THEN TextFile(<<>>) ELSE file
    /\ op' = "save"
    /\ UNCHANGED <<platform, cwd, matcherVars, evalVars, applyVars, runs, dirExists,
                   loaded, saveConfig, docBefore, madeDir, hookVars, asyncVars, writerVars>>

\* writeFileSync writes the next piece of the content, and returns after the last
Write ==
    /\ savePc = "write"
    /\ LET content == JSONstringify(saveConfig)
           n == Len(file.text)
       IN  \E ok \in BOOLEAN :
              /\ savePc' = pcAfter(ok, IF n + 1 = Len(content) THEN "returned" ELSE "write")
              /\ file' = IF ok THEN TextFile(SubSeq(content, 1, n + 1)) ELSE file
    /\ op' = "save"
    /\ UNCHANGED <<platform, cwd, matcherVars, evalVars, applyVars, runs, dirExists,
                   loaded, saveConfig, docBefore, madeDir, hookVars, asyncVars, writerVars>>

configAfterSave_optimistic(cur, newConfig, ipc) == newConfig

\* save: await savePathRules(...); setConfig(newConfig), skipped when the await throws
configAfterSave(cur, newConfig, ipc) == IF ipc = "resolved" THEN newConfig ELSE cur

\* usePathRules.save(newConfig), the awaited savePathRules call settling as ipc
HookSave ==
    /\ hookOutcome = "none"
    /\ \E ipc \in {"resolved", "rejected"} :
          IF ~workspaceId.some \/ workspaceId.str = ""
          THEN /\ hookOutcome' = "resolved"
               /\ UNCHANGED <<ipcResult, hookConfig>>
          ELSE /\ ipcResult' = ipc
               /\ hookConfig' = configAfterSave(hookConfig, saveConfig, ipc)
               /\ hookOutcome' = ipc
    /\ op' = "hookSave"
    /\ UNCHANGED <<platform, cwd, matcherVars, evalVars, applyVars, runs, fsVars, loaded,
                   saveVars, workspaceId, asyncVars, writerVars>>

NextSave == Save \/ Open \/ Write \/ Load \/ HookSave

SpecSave == InitSave /\ [][NextSave]_vars

(***************************************************************************)
(* Evaluate and apply in a process that changes its directory.             *)
(* Rule paths and working directories are strings of any spelling: the     *)
(* store accepts every string as a path.                                   *)
(***************************************************************************)
RelativeA == <<"a">>

CwdRuleBodies ==
    { [path |-> p, match |-> m, labelId |-> LabelP, value |-> NoValue,
       enabled |-> "undefined"] : p \in { RelativeA, PathA }, m \in Modes }

CwdRuleSets == { withIds(b) : b \in SeqsUpTo(CwdRuleBodies, MaxRules) }

InitCwd ==
    /\ platform = "posix"
    /\ cwd \in Cwds
    /\ op = "init"
    /\ runs = 0
    /\ workingDirectory \in { Unset, Str(<<>>), Str(RelativeA), Str(PathA), Str(PathAA) }
    /\ config \in CwdRuleSets
    /\ labels \in Trees
    /\ matches = <<>>
    /\ currentLabels \in SessionLabels
    /\ prevLabels = currentLabels
    /\ newLabels = <<>>
    /\ returnedArgument = FALSE
    /\ argAfter = currentLabels
    /\ IdleMatcher /\ IdleStore

\* process.chdir(directory), between two evaluate-and-apply rounds
Chdir ==
    /\ op \in {"init", "apply"}
    /\ \E d \in Cwds \ {cwd} : cwd' = d
    /\ op' = "chdir"
    /\ UNCHANGED <<platform, matcherVars, evalVars, applyVars, runs, storeVars>>

NextCwd == Evaluate \/ Apply \/ Chdir

SpecCwd == InitCwd /\ [][NextCwd]_vars

(***************************************************************************)
(* The evaluator called on rules whose value is absent, empty or not       *)
(***************************************************************************)
RuleValues == { NoValue, Str(<<>>), Str(<<"2">>) }

ValuedRuleBodies ==
    { [path |-> p, match |-> "prefix", labelId |-> l, value |-> v,
       enabled |-> "undefined"] : p \in RulePaths, l \in {LabelP, LabelQ}, v \in RuleValues }

ValuedRuleSets == { withIds(b) : b \in SeqsUpTo(ValuedRuleBodies, MaxRules) }

InitEncode ==
    /\ platform = "posix"
    /\ cwd = Slash
    /\ op = "init"
    /\ runs = 0
    /\ workingDirectory \in { Str(PathA), Str(PathAA) }
    /\ config \in ValuedRuleSets
    /\ labels = NoTree
    /\ matches = <<>>
    /\ IdleMatcher /\ IdleApply /\ IdleStore

NextEncode == Evaluate

SpecEncode == InitEncode /\ [][NextEncode]_vars

(***************************************************************************)
(* Two writers on one document, each running load, add its rule, save.     *)
(* The store has no lock; whether the cycles run one at a time is up to    *)
(* the callers.  Each save is a call in which no file system call fails.   *)
(***************************************************************************)
\* savePathRulesConfig, all its file system calls succeeding: what it leaves
savePathRulesConfig(rules) == [dirExists |-> TRUE, file |-> TextFile(JSONstringify(rules))]

Writers == {"A", "B"}

EntryA == Entry(JString("a1"), JString("/a"), JString("prefix"), JString("q"))
EntryB == Entry(JString("b1"), JString("/a/a"), JString("exact"), JString("p"))

ruleOf(w) == IF w = "A" THEN EntryA ELSE EntryB

InitWriters ==
    /\ platform = "posix"
    /\ cwd = Slash
    /\ op = "init"
    /\ runs = 0
    /\ IdleMatcher /\ IdleEval /\ IdleApply
    /\ file \in { NoFile } \cup { TextFile(JSONstringify(c)) : c \in SaveConfigs }
    /\ dirExists = (file.state # "absent")
    /\ loaded = NotLoaded
    /\ saveConfig = <<>>
    /\ savePc = "idle"
    /\ docBefore = <<>>
    /\ madeDir = FALSE
    /\ IdleHook /\ IdleAsync
    /\ writerPc = [w \in Writers |-> "idle"]
    /\ writerConfig = [w \in Writers |-> <<>>]
    /\ serialized \in BOOLEAN

\* a writer calls loadPathRulesConfig and adds its rule to the rules returned
WriterLoad(w) ==
    /\ writerPc[w] = "idle"
    /\ serialized => \A v \in Writers : writerPc[v] # "loaded"
    /\ loaded' = loadPathRulesConfig(file)
    /\ writerConfig' = [writerConfig EXCEPT ![w] = Append(loaded'.rules, ruleOf(w))]
    /\ writerPc' = [writerPc EXCEPT ![w] = "loaded"]
    /\ op' = "load"
    /\ UNCHANGED <<platform, cwd, matcherVars, evalVars, applyVars, runs, fsVars, saveVars,
                   hookVars, asyncVars, serialized>>

\* a writer calls savePathRulesConfig with its rule set
WriterSave(w) ==
    /\ writerPc[w] = "loaded"
    /\ LET saved == savePathRulesConfig(writerConfig[w])
       IN  /\ dirExists' = saved.dirExists
           /\ file' = saved.file
    /\ writerPc' = [writerPc EXCEPT ![w] = "saved"]
    /\ op' = "save"
    /\ UNCHANGED <<platform, cwd, matcherVars, evalVars, applyVars, runs, loaded, saveVars,
                   hookVars, asyncVars, writerConfig, serialized>>

NextWriters == \E w \in Writers : WriterLoad(w) \/ WriterSave(w)

SpecWriters == InitWriters /\ [][NextWriters]_vars

(***************************************************************************)
(* The read path: loads of a document nobody writes, and evaluations of a  *)
(* rule set while the owner of the label tree creates labels               *)
(***************************************************************************)
ReadRuleBodies ==
    { [path |-> PathA, match |-> "prefix", labelId |-> l, value |-> NoValue,
       enabled |-> e] : l \in {LabelP, LabelQ}, e \in {"undefined", "false"} }

ReadRuleSets == { withIds(b) : b \in SeqsUpTo(ReadRuleBodies, MaxRules) }

InitRead ==
    /\ platform = "posix"
    /\ cwd = Slash
    /\ op = "init"
    /\ runs = 0
    /\ workingDirectory = Str(PathAA)
    /\ config \in ReadRuleSets
    /\ labels \in Trees \ {NoTree}
    /\ matches = <<>>
    /\ IdleMatcher /\ IdleApply
    /\ file \in { NoFile, Unreadable, TextFile(<<T("{")>>),
                  TextFile(JSONstringify(<<EntryR1, EntryNoPath, EntryR2>>)) }
    /\ dirExists = (file.state # "absent")
    /\ loaded = NotLoaded
    /\ saveConfig = <<>>
    /\ savePc = "idle"
    /\ docBefore = <<>>
    /\ madeDir = FALSE
    /\ IdleHook /\ IdleAsync /\ IdleWriters

\* the owner of the label tree creates a label
CreateLabel ==
    /\ \E id \in {LabelP, LabelQ} :
          /\ ~findLabelById(labels.items, id)
          /\ labels' = [some |-> TRUE, items |-> Append(labels.items, Leaf(id))]
    /\ op' = "createLabel"
    /\ UNCHANGED <<platform, cwd, matcherVars, workingDirectory, config, matches, applyVars,
                   runs, storeVars>>

NextRead == Load \/ Evaluate \/ CreateLabel

SpecRead == InitRead /\ [][NextRead]_vars

(***************************************************************************)
(* The evaluator called on rule paths as a human may write them, for       *)
(* working directories that include '/a/..a'                               *)
(***************************************************************************)
\* '/a', '/a/', '/a/a' and '/a/a/..'
SpelledPaths ==
    { PathA, PathA \o Slash, PathAA, PathAA \o Slash \o DotDot }

SpelledRuleBodies ==
    { [path |-> p, match |-> "prefix", labelId |-> l, value |-> NoValue,
       enabled |-> "undefined"] : p \in SpelledPaths, l \in {LabelP, LabelQ} }

SpelledRuleSets == { withIds(b) : b \in SeqsUpTo(SpelledRuleBodies, MaxRules) }

InitSpelling ==
    /\ platform = "posix"
    /\ cwd = Slash
    /\ op = "init"
    /\ runs = 0
    /\ workingDirectory \in { Str(PathAA), Str(PathAAA), Str(PathA \o Slash \o DotDot \o <<"a">>) }
    /\ config \in SpelledRuleSets
    /\ labels = NoTree
    /\ matches = <<>>
    /\ IdleMatcher /\ IdleApply /\ IdleStore

NextSpelling == Evaluate

SpecSpelling == InitSpelling /\ [][NextSpelling]_vars

(***************************************************************************)
(* useResizeGradient.ts: usePathRules, rendered with one workspaceId after *)
(* another.  The getPathRules and savePathRules calls it awaits settle in  *)
(* any order, each resolved or rejected; a call that was issued is never   *)
(* withdrawn.  A getPathRules call resolves with the rule set the          *)
(* workspace's document holds when it settles.                             *)
(***************************************************************************)
HookStores == { "w1", "w2" }

HookWorkspaceIds == { NoWorkspace, Workspace("") } \cup { Workspace(w) : w \in HookStores }

\* rule sets a document holds or a save is given
HookConfigs == { <<EntryR1>>, <<EntryR2>> }

\* if (!workspaceId)
noWorkspace(id) == ~id.some \/ id.str = ""

LoadCall(ws, seq) == [kind |-> "load", ws |-> ws, seq |-> seq, config |-> EmptyConfig]
SaveCall(ws, seq, c) == [kind |-> "save", ws |-> ws, seq |-> seq, config |-> c]

\* reload: setConfig(loaded), or setConfig(EMPTY_CONFIG) in the catch
configAfterLoad(loadedConfig, ipc) == IF ipc = "resolved" THEN loadedConfig ELSE EmptyConfig

hookFrame ==
    <<platform, cwd, matcherVars, evalVars, applyVars, runs, fsVars, loaded, savePc,
      docBefore, madeDir, writerVars>>

InitHook ==
    /\ platform = "posix"
    /\ cwd = Slash
    /\ op = "init"
    /\ runs = 0
    /\ IdleMatcher /\ IdleEval /\ IdleApply
    /\ file = NoFile
    /\ dirExists = FALSE
    /\ loaded = NotLoaded
    /\ saveConfig = <<>>
    /\ savePc = "idle"
    /\ docBefore = <<>>
    /\ madeDir = FALSE
    /\ IdleHook /\ IdleWriters
    /\ isLoading = TRUE
    /\ pending = {}
    /\ stores \in [HookStores -> HookConfigs]
    /\ nextSeq = 0
    /\ expected = EmptyConfig
    /\ expectedSeq = 0

\* the hook is rendered with a workspaceId (the first time, or another one):
\* the effect runs setIsLoading(true) and reload(), up to its await
Render(id) ==
    /\ op = "init" \/ id # workspaceId
    /\ workspaceId' = id
    /\ IF noWorkspace(id)
       THEN /\ hookConfig' = EmptyConfig
            /\ isLoading' = FALSE
            /\ UNCHANGED <<pending, nextSeq>>
       ELSE /\ nextSeq < MaxRequests
            /\ isLoading' = TRUE
            /\ pending' = pending \cup { LoadCall(id.str, nextSeq + 1) }
            /\ nextSeq' = nextSeq + 1
            /\ UNCHANGED hookConfig
    /\ expected' = EmptyConfig
    /\ expectedSeq' = nextSeq
    /\ op' = "render"
    /\ UNCHANGED <<hookFrame, stores, saveConfig, ipcResult, hookOutcome>>

\* the document of workspace w was changed and LABELS_CHANGED is sent: the
\* listener calls reload() when w is the workspaceId it was subscribed for
LabelsChanged(w, c) ==
    /\ op # "init"
    /\ stores' = [stores EXCEPT ![w] = c]
    /\ IF workspaceId = Workspace(w)
       THEN /\ nextSeq < MaxRequests
            /\ pending' = pending \cup { LoadCall(w, nextSeq + 1) }
            /\ nextSeq' = nextSeq + 1
       ELSE UNCHANGED <<pending, nextSeq>>
    /\ op' = "labelsChanged"
    /\ UNCHANGED <<hookFrame, workspaceId, hookConfig, isLoading, expected, expectedSeq,
                   saveConfig, ipcResult, hookOutcome>>

\* an awaited getPathRules call settles
LoadSettles(r, ipc) ==
    /\ r \in pending
    /\ r.kind = "load"
    /\ pending' = pending \ {r}
    /\ hookConfig' = configAfterLoad(stores[r.ws], ipc)
    /\ isLoading' = FALSE
    /\ IF workspaceId = Workspace(r.ws) /\ r.seq > expectedSeq
       THEN /\ expected' = configAfterLoad(stores[r.ws], ipc)
            /\ expectedSeq' = r.seq
       ELSE UNCHANGED <<expected, expectedSeq>>
    /\ op' = "loadSettled"
    /\ UNCHANGED <<hookFrame, workspaceId, stores, nextSeq, saveConfig, ipcResult, hookOutcome>>

\* save(newConfig) is called: it returns at once without a workspaceId, and
\* awaits savePathRules otherwise
SaveCalled(c) ==
    /\ op # "init"
    /\ saveConfig' = c
    /\ IF noWorkspace(workspaceId)
       THEN /\ hookOutcome' = "resolved"
            /\ ipcResult' = "none"
            /\ UNCHANGED <<pending, nextSeq>>
       ELSE /\ nextSeq < MaxRequests
            /\ pending' = pending \cup { SaveCall(workspaceId.str, nextSeq + 1, c) }
            /\ nextSeq' = nextSeq + 1
            /\ hookOutcome' = "none"
            /\ ipcResult' = "none"
    /\ op' = "saveCalled"
    /\ UNCHANGED <<hookFrame, workspaceId, hookConfig, isLoading, stores, expected, expectedSeq>>

\* an awaited savePathRules call settles; a call that resolved wrote the document
SaveSettles(r, ipc) ==
    /\ r \in pending
    /\ r.kind = "save"
    /\ pending' = pending \ {r}
    /\ saveConfig' = r.config
    /\ ipcResult' = ipc
    /\ hookOutcome' = ipc
    /\ stores' = IF ipc = "resolved" THEN [stores EXCEPT ![r.ws] = r.config] ELSE stores
    /\ hookConfig' = configAfterSave(hookConfig, r.config, ipc)
    /\ IF ipc = "resolved" /\ workspaceId = Workspace(r.ws) /\ r.seq > expectedSeq
       THEN /\ expected' = r.config
            /\ expectedSeq' = r.seq
       ELSE UNCHANGED <<expected, expectedSeq>>
    /\ op' = "saveSettled"
    /\ UNCHANGED <<hookFrame, workspaceId, isLoading, nextSeq>>

NextHook ==
    \/ \E id \in HookWorkspaceIds : Render(id)
    \/ \E w \in HookStores, c \in HookConfigs : LabelsChanged(w, c)
    \/ \E r \in pending, ipc \in {"resolved", "rejected"} : LoadSettles(r, ipc)
    \/ \E c \in HookConfigs : SaveCalled(c)
    \/ \E r \in pending, ipc \in {"resolved", "rejected"} : SaveSettles(r, ipc)

SpecHook == InitHook /\ [][NextHook]_vars

(***************************************************************************)
(* Properties of the matcher                                               *)
(***************************************************************************)
\* the location a path denotes: the segments of its normalized form
LocationOf(p) == segmentsOf(normalizePath(p, platform, cwd))

IsSegmentPrefix(a, b) == Len(a) <= Len(b) /\ SubSeq(b, 1, Len(a)) = a

\* the working directory is the rule path or lies below it at a segment boundary
AtOrBelow == IsSegmentPrefix(LocationOf(rulePath), LocationOf(matchDir))

\* C5: in prefix mode a match implies that the normalized working directory is
\* the normalized rule path or lies below it at a path-segment boundary; a
\* directory that extends the last segment's string, a sibling or an ancestor
\* never matches.
C5_PrefixBoundary ==
    (op = "matchesPath" /\ mode = "prefix" /\ matched) => AtOrBelow

\* rule '/a' against '/ab' in prefix mode was evaluated and did not match
C5_Witness ==
    /\ op = "matchesPath" /\ mode = "prefix"
    /\ LocationOf(rulePath) = << <<"a">> >>
    /\ LocationOf(matchDir) = << <<"a", "b">> >>
    /\ ~matched

\* C6: in prefix mode every working directory that is the rule path or a
\* descendant of it matches, whatever the names of the descendant's segments.
C6_PrefixComplete ==
    (op = "matchesPath" /\ mode = "prefix" /\ AtOrBelow) => matched

\* C7: in exact mode the matcher answers true exactly when the two normalized
\* paths are equal, so never for a strict descendant or ancestor.
C7_ExactStrict ==
    (op = "matchesPath" /\ mode = "exact") =>
        LET rule == LocationOf(rulePath)
            dir == LocationOf(matchDir)
        IN /\ matched <=> (rule = dir)
           /\ (IsSegmentPrefix(rule, dir) /\ Len(dir) > Len(rule)) => ~matched
           /\ (IsSegmentPrefix(dir, rule) /\ Len(dir) < Len(rule)) => ~matched

\* exact rule '/a' was evaluated against its descendant '/a/a' and did not match
C7_Witness ==
    /\ op = "matchesPath" /\ mode = "exact"
    /\ LocationOf(rulePath) = << <<"a">> >>
    /\ LocationOf(matchDir) = << <<"a">>, <<"a">> >>
    /\ ~matched

\* C8: on win32 the answer for any spelling of the two paths is the answer for
\* their lower-case spelling, so all spellings that differ in letter case only
\* get the same answer, in both modes; on the other platforms two normalized
\* paths that differ in case only never match.
C8_PlatformCase ==
    op = "matchesPath" =>
        /\ platform = "win32" =>
              matched = matchesPath(toLowerCase(rulePath), toLowerCase(matchDir),
                                    mode, platform, cwd)
        /\ platform # "win32" =>
              LET rule == normalizePath(rulePath, platform, cwd)
                  dir == normalizePath(matchDir, platform, cwd)
              IN (rule # dir /\ toLowerCase(rule) = toLowerCase(dir)) => ~matched

\* on win32 rule '/A/a' matched the working directory '/a/A'
C8_Witness ==
    /\ op = "matchesPath" /\ platform = "win32"
    /\ rulePath = <<"/", "A", "/", "a">>
    /\ matchDir = <<"/", "a", "/", "A">>
    /\ matched

(***************************************************************************)
(* Properties of the evaluator                                             *)
(***************************************************************************)
\* C9: the matches are in order of non-increasing rule path string length, and
\* matches of rules with paths of equal length are in declaration order (a
\* rule's id is its place in the rule set); so '/a/a' comes before '/a'.
C9_SpecificityOrder ==
    op = "evaluate" =>
        \A i \in 1..Len(matches), j \in 1..Len(matches) :
            i < j =>
                /\ Len(matches[i].rule.path) >= Len(matches[j].rule.path)
                /\ Len(matches[i].rule.path) = Len(matches[j].rule.path)
                     => matches[i].rule.id < matches[j].rule.id

\* prefix rules '/a' and then '/a/a' with different labels, evaluated at
\* '/a/a/a': both match, the rule declared second comes first
C9_Witness ==
    /\ op = "evaluate"
    /\ workingDirectory = Str(PathAAA)
    /\ Len(config) = 2 /\ Len(matches) = 2
    /\ config[1].path = PathA /\ config[1].match = "prefix"
    /\ config[2].path = PathAA /\ config[2].match = "prefix"
    /\ matches[1].rule = config[2] /\ matches[2].rule = config[1]

\* the rule set with the rules that satisfy keep, ids unchanged
rulesWhere(rules, keep(_)) == SelectSeq(rules, keep)

\* the rule set with every absent enabled field written as true
writtenEnabled(rules) ==
    [i \in 1..Len(rules) |->
        IF rules[i].enabled = "undefined" THEN [rules[i] EXCEPT !.enabled = "true"] ELSE rules[i]]

\* what a result says: which rule produced which label entry, in order
outcomeOf(ms) == [i \in 1..Len(ms) |-> <<ms[i].rule.id, ms[i].labelEntry>>]

\* C10: no match carries a rule with enabled = false, the result is the one of
\* the rule set without its disabled rules, and a rule without an enabled
\* field is evaluated as a rule with enabled = true.
C10_DisabledExcluded ==
    op = "evaluate" =>
        /\ \A i \in 1..Len(matches) : matches[i].rule.enabled # "false"
        /\ matches = evaluatePathRules(workingDirectory,
                          rulesWhere(config, LAMBDA r : r.enabled # "false"),
                          labels, platform, cwd)
        /\ outcomeOf(matches) =
             outcomeOf(evaluatePathRules(workingDirectory, writtenEnabled(config),
                                         labels, platform, cwd))

\* a disabled rule whose path matches and whose label exists was evaluated with
\* an enabled rule that matched, and a rule without an enabled field matched
C10_Witness ==
    /\ op = "evaluate" /\ workingDirectory.some /\ Len(matches) = 1
    /\ matches[1].rule.enabled = "undefined"
    /\ \E i \in 1..Len(config) :
          /\ config[i].enabled = "false"
          /\ matchesPath(config[i].path, workingDirectory.str, config[i].match, platform, cwd)
          /\ labels.some => findLabelById(labels.items, config[i].labelId)
          /\ labelEntryOf(config[i]) # matches[1].labelEntry

(***************************************************************************)
(* Properties of the merger                                                *)
(***************************************************************************)
IsPrefixOf(a, b) == Len(a) <= Len(b) /\ SubSeq(b, 1, Len(a)) = a

\* C2: no step removes, renames or moves an entry of the session's labels:
\* the labels before a step are a prefix of the labels after it, and a
\* session that has a labels array keeps one.
C2_Monotonic ==
    [][ /\ IsPrefixOf(currentLabels.items, currentLabels'.items)
        /\ currentLabels.some => currentLabels'.some ]_vars

\* a call appended entries behind the labels the session already had
C2_Witness ==
    /\ op = "apply"
    /\ Len(prevLabels.items) > 1
    /\ Len(newLabels) > 0
    /\ currentLabels.items = prevLabels.items \o newLabels

sharesBareId(entry, items) ==
    \E k \in 1..Len(items) : bareIdOf(items[k]) = bareIdOf(entry)

inSeq(x, q) == \E k \in 1..Len(q) : q[k] = x

\* C3: a match whose bare id is the bare id of an entry the labels already
\* held is not added, whether that entry is bare or carries another value.
C3_ValuedConflict ==
    op = "apply" =>
        \A i \in 1..Len(matches) :
            sharesBareId(matches[i].labelEntry, prevLabels.items)
                => ~inSeq(matches[i].labelEntry, newLabels)

\* with 'p::2' in the labels a match for 'p::3' was applied: nothing changed
C3_Witness ==
    /\ op = "apply"
    /\ prevLabels = Labels(<< <<"p", ":", ":", "2">> >>)
    /\ Len(matches) = 1 /\ matches[1].labelEntry = <<"p", ":", ":", "3">>
    /\ currentLabels = prevLabels
    /\ newLabels = <<>>

oneEntryPerBareId(items) ==
    \A i \in 1..Len(items), j \in 1..Len(items) :
        bareIdOf(items[i]) = bareIdOf(items[j]) => i = j

\* C4 as claimed: the result holds two entries with the same bare id only if
\* the labels given to the call already did.
C4_OnePerBareId ==
    (op = "apply" /\ oneEntryPerBareId(prevLabels.items))
        => oneEntryPerBareId(currentLabels.items)

\* C4 as amended: a staged entry never shares its bare id with an entry the
\* labels held before the call, and the matches of one call are not checked
\* against each other: two matches with different entries of the same bare
\* id, a bare id no label held before the call, are both staged.
C4_OnePerBareIdAgainstExisting ==
    op = "apply" =>
        /\ \A k \in 1..Len(newLabels) : ~sharesBareId(newLabels[k], prevLabels.items)
        /\ \A i \in 1..Len(matches), j \in 1..Len(matches) :
              ( /\ matches[i].labelEntry # matches[j].labelEntry
                /\ bareIdOf(matches[i].labelEntry) = bareIdOf(matches[j].labelEntry)
                /\ ~sharesBareId(matches[i].labelEntry, prevLabels.items) )
              => (inSeq(matches[i].labelEntry, newLabels) /\ inSeq(matches[j].labelEntry, newLabels))

\* matches for 'p::2' and 'p::3' were applied to labels without p: both staged
C4_Witness ==
    /\ op = "apply"
    /\ ~sharesBareId(<<"p">>, prevLabels.items)
    /\ Len(matches) = 2
    /\ matches[1].labelEntry = <<"p", ":", ":", "2">>
    /\ matches[2].labelEntry = <<"p", ":", ":", "3">>
    /\ newLabels = << <<"p", ":", ":", "2">>, <<"p", ":", ":", "3">> >>

\* C1: a second (and any later) evaluate-and-apply round on the same working
\* directory, rule set, label tree and on the labels the round before left
\* stages nothing and leaves the labels as they were.
C1_Idempotent ==
    (op = "apply" /\ runs >= 2) => (newLabels = <<>> /\ currentLabels = prevLabels)

\* a second round ran with matches, on labels to which a round had added q
C1_Witness ==
    /\ op = "apply" /\ runs = 2
    /\ Len(matches) > 1
    /\ inSeq(LabelQ, currentLabels.items)

(***************************************************************************)
(* Properties of the evaluator: label tree, empty directory, dedup         *)
(***************************************************************************)
\* the ids that occur in a forest, at any depth
RECURSIVE idsIn(_)
idsIn(nodes) ==
    IF nodes = <<>> THEN {}
    ELSE {Head(nodes).id}
         \cup (IF Head(nodes).children.some THEN idsIn(Head(nodes).children.items) ELSE {})
         \cup idsIn(Tail(nodes))

\* a flat tree that holds every label id a rule of the rule set names
treeOfAll(rules) ==
    [some |-> TRUE,
     items |-> [i \in 1..Len(rules) |-> [id |-> rules[i].labelId, children |-> NoTree]]]

\* C11: with a tree, no match names a label id that occurs nowhere in the tree,
\* and the result is the result, without a tree, of the rule set without the
\* rules whose label id occurs nowhere in it: ids at any depth count, and the
\* other rules are evaluated as if the dangling ones were not there.  Without
\* a tree the result is the one a tree with every label id would give.
C11_DanglingSkipped ==
    op = "evaluate" =>
        /\ labels.some =>
              /\ \A i \in 1..Len(matches) : matches[i].rule.labelId \in idsIn(labels.items)
              /\ matches = evaluatePathRules(workingDirectory,
                      rulesWhere(config, LAMBDA r : r.labelId \in idsIn(labels.items)),
                      NoTree, platform, cwd)
        /\ ~labels.some =>
              matches = evaluatePathRules(workingDirectory, config, treeOfAll(config),
                                          platform, cwd)

\* with p nested under q in the tree, and with a tree that lacks q: a rule for
\* q that matches the directory is skipped while a rule for p yields its match
C11_Witness ==
    /\ op = "evaluate" /\ labels.some /\ workingDirectory.some
    /\ LabelQ \notin idsIn(labels.items)
    /\ Len(matches) = 1 /\ matches[1].rule.labelId = LabelP
    /\ \E i \in 1..Len(config) :
          /\ config[i].labelId = LabelQ /\ config[i].enabled # "false"
          /\ matchesPath(config[i].path, workingDirectory.str, config[i].match, platform, cwd)

\* p is found as a child of q
C11_WitnessNested ==
    /\ op = "evaluate" /\ labels.some
    /\ ~(\E k \in 1..Len(labels.items) : labels.items[k].id = LabelP)
    /\ \E i \in 1..Len(matches) : matches[i].rule.labelId = LabelP

(***************************************************************************)
(* Properties of the store                                                 *)
(***************************************************************************)
\* the entries of the rules array of a well-formed document
entriesOf(text) == [i \in 1..(Len(text) - 5) |-> text[i + 3].entry]

IsWellFormed(f) ==
    f.state = "text" /\ Len(f.text) >= 5 /\ f.text = JSONstringify(entriesOf(f.text))

\* string id, string path, match in {exact, prefix}, string labelId
meetsValidity(e) ==
    /\ e.kind = "object"
    /\ e.id.type = "string"
    /\ e.path.type = "string"
    /\ e.match.type = "string" /\ e.match.val \in {"exact", "prefix"}
    /\ e.labelId.type = "string"

\* C12: a load of a well-formed document returns, without raising, exactly the
\* entries of its rules array that have a string id, a string path, a match of
\* exact or prefix and a string labelId, in document order; an invalid entry
\* drops no valid one.
C12_CorruptStoreRecovery ==
    (op = "load" /\ IsWellFormed(file)) =>
        /\ ~loaded.raised
        /\ loaded.version = 1
        /\ loaded.rules = SelectSeq(entriesOf(file.text), meetsValidity)

\* two rules around an entry without a path: the load returns the two rules
C12_Witness ==
    /\ op = "load"
    /\ file = TextFile(JSONstringify(<<EntryR1, EntryNoPath, EntryR2>>))
    /\ loaded.rules = <<EntryR1, EntryR2>>

\* the document states from which no rule can be read
IsBroken(f) ==
    \/ f.state \in {"absent", "unreadable"}
    \/ f.state = "text" /\ f.text \in UnparsableTexts \cup NoRulesTexts

EmptyRuleSet == [raised |-> FALSE, version |-> 1, rules |-> <<>>]

\* C13: a load never raises, and for a document that is absent, unreadable, not
\* JSON, JSON but not an object, or an object without a rules array it returns
\* the empty rule set {version: 1, rules: []}.
C13_LoadNeverFails ==
    op = "load" =>
        /\ ~loaded.raised
        /\ IsBroken(file) => loaded = EmptyRuleSet

\* an unreadable document and a document cut short were loaded as the empty set
C13_Witness ==
    /\ op = "load"
    /\ file \in { Unreadable, TextFile(<<T("{"), T("version"), T("rules["), E(EntryR1)>>) }
    /\ loaded = EmptyRuleSet

\* C14: savePathRulesConfig returns normally only when the labels directory
\* exists and the document holds the whole serialized rule set: a failed mkdir
\* or a failed write ends the call raised.  usePathRules.save rejects whenever
\* the savePathRules call it awaits rejects, and then leaves config alone.
C14_SaveFailurePropagates ==
    /\ savePc = "returned" => (dirExists /\ file = TextFile(JSONstringify(saveConfig)))
    /\ ipcResult = "rejected" => (hookOutcome = "rejected" /\ hookConfig = <<>>)

\* a write failed after a part of the content was written and the call raised;
\* the hook's awaited call rejected and the hook rejected
C14_Witness ==
    /\ savePc = "raised"
    /\ file.state = "text"
    /\ file.text # <<>>
    /\ Len(file.text) < Len(JSONstringify(saveConfig))
    /\ file.text = SubSeq(JSONstringify(saveConfig), 1, Len(file.text))
    /\ ipcResult = "rejected"
    /\ hookOutcome = "rejected"

\* what reading the fields of each rule gives: a property that is absent and
\* one that is undefined both read as undefined
fieldsOf(rules) ==
    LET read(v) == IF v.type = "undefined" THEN JMissing ELSE v
    IN  [i \in 1..Len(rules) |->
            [kind |-> rules[i].kind, id |-> read(rules[i].id), path |-> read(rules[i].path),
             match |-> read(rules[i].match), labelId |-> read(rules[i].labelId),
             enabled |-> read(rules[i].enabled)]]

\* C15: a load at any point relative to a save returns the rule set the
\* document held before the save or the rule set being saved.
C15_SaveAtomic ==
    op = "load" => loaded.rules \in {docBefore, fieldsOf(saveConfig)}

(***************************************************************************)
(* Properties of the evaluator: determinism, empty directory, dedup,       *)
(* encoding                                                                *)
(***************************************************************************)
\* C16: a call of evaluatePathRules that follows an earlier call on the same
\* working directory, rule set and label tree returns the matches the earlier
\* call returned, whatever the process did in between.
C16_Deterministic ==
    [][(op' = "evaluate" /\ runs >= 1) => matches' = matches]_vars

NoDirectory == ~workingDirectory.some \/ workingDirectory.str = <<>>

\* C17: with an unset or empty working directory evaluatePathRules returns no
\* match, for every rule set and label tree, and the applyPathRuleMatches that
\* follows stages nothing and leaves the session's labels as they were.
C17_EmptyDirectoryNoOp ==
    NoDirectory =>
        /\ op = "evaluate" => matches = <<>>
        /\ op = "apply" => (newLabels = <<>> /\ currentLabels = prevLabels)

\* evaluate and apply ran with an empty working directory in a process whose
\* current directory is the path of an enabled rule with a label of the tree
C17_Witness ==
    /\ op = "apply"
    /\ runs >= 1
    /\ workingDirectory = Str(<<>>)
    /\ cwd = PathA
    /\ \E i \in 1..Len(config) : config[i].path = PathA
    /\ labels.some
    /\ matches = <<>>
    /\ currentLabels = prevLabels

\* every match is skipped by the merger: its entry, or an entry of its bare id,
\* is among the labels the call was given
nothingToStage ==
    \A i \in 1..Len(matches) :
        \/ inSeq(matches[i].labelEntry, prevLabels.items)
        \/ sharesBareId(matches[i].labelEntry, prevLabels.items)

C18_WitnessStaged ==
    /\ op = "apply"
    /\ prevLabels.some
    /\ prevLabels.items # <<>>
    /\ ~returnedArgument
    /\ argAfter = prevLabels

\* the rules of the set that are enabled, match the working directory and name
\* a label of the tree, in the order in which they are evaluated
eligibleRules ==
    SelectSeq(sortByPathLength(config),
              LAMBDA r : /\ r.enabled # "false"
                         /\ matchesPath(r.path, workingDirectory.str, r.match, platform, cwd)
                         /\ labels.some => r.labelId \in idsIn(labels.items))

\* C19: no two matches of a result carry the same labelEntry, and each match
\* carries the first rule, in evaluation order, among the enabled, matching,
\* non-dangling rules that encode its entry.
C19_FirstWins ==
    (op = "evaluate" /\ ~NoDirectory) =>
        /\ \A i, j \in 1..Len(matches) :
              matches[i].labelEntry = matches[j].labelEntry => i = j
        /\ \A i \in 1..Len(matches) :
              \E k \in 1..Len(eligibleRules) :
                  /\ eligibleRules[k] = matches[i].rule
                  /\ labelEntryOf(eligibleRules[k]) = matches[i].labelEntry
                  /\ \A h \in 1..(k - 1) :
                        labelEntryOf(eligibleRules[h]) # matches[i].labelEntry

\* two eligible rules encode one entry and the result holds the entry once
C19_Witness ==
    /\ op = "evaluate"
    /\ ~NoDirectory
    /\ Len(eligibleRules) = 2
    /\ labelEntryOf(eligibleRules[1]) = labelEntryOf(eligibleRules[2])
    /\ Len(matches) = 1
    /\ matches[1].rule = eligibleRules[1]

\* C20: the labelEntry of every match is labelId, '::' and the value when the
\* rule of the match has a value, whatever string the value is, and is the
\* labelId alone when the rule has no value.
C20_Encoding ==
    op = "evaluate" =>
        \A i \in 1..Len(matches) :
            LET rule == matches[i].rule
            IN  matches[i].labelEntry =
                    IF rule.value.some THEN rule.labelId \o ColonColon \o rule.value.str
                    ELSE rule.labelId

(***************************************************************************)
(* Properties of evaluate and apply together                               *)
(***************************************************************************)
\* the rule set with its rules in every order
permutationsOf(rules) ==
    { [i \in 1..Len(rules) |-> rules[f[i]]] : f \in Permutations(1..Len(rules)) }

setOf(q) == { q[i] : i \in 1..Len(q) }

\* C21: the set of labels the session holds after evaluatePathRules and
\* applyPathRuleMatches is the set it would hold had the rules of the rule set
\* been in any other order, for the same working directory, tree and labels.
C21_OrderIndependent ==
    op = "apply" =>
        \A other \in permutationsOf(config) :
            setOf(applyPathRuleMatches(prevLabels,
                      evaluatePathRules(workingDirectory, other, labels, platform, cwd)).items)
                = setOf(currentLabels.items)

\* two rules on one path with two values of one label were both applied
C21_Witness ==
    /\ op = "apply"
    /\ Len(config) = 2
    /\ config[1].path = config[2].path
    /\ config[1].labelId = config[2].labelId
    /\ config[1].value # config[2].value
    /\ Len(newLabels) = 2

\* C22: the rules of every rule set that a load returns have pairwise distinct
\* ids.
C22_UniqueIds ==
    op = "load" =>
        \A i, j \in 1..Len(loaded.rules) :
            loaded.rules[i].id = loaded.rules[j].id => i = j

(***************************************************************************)
(* Properties of the store under two writers                               *)
(***************************************************************************)
BothSaved == \A w \in Writers : writerPc[w] = "saved"

documentHolds(rule) == inSeq(rule, loadPathRulesConfig(file).rules)

\* C23: when the two writers run their load, add, save cycles one at a time,
\* the document holds both writers' rules after both cycles, whichever cycle
\* ran first; without that (see C23_Witness) a document without one writer's
\* rule is reached.
C23_SerializedKeepsBoth ==
    (serialized /\ BothSaved) => \A w \in Writers : documentHolds(ruleOf(w))

\* the cycles interleaved, and the document lacks a writer's rule
C23_Witness ==
    /\ ~serialized
    /\ BothSaved
    /\ \E w \in Writers : ~documentHolds(ruleOf(w))

\* the cycles ran one at a time, B's before A's
C23_WitnessSerialized ==
    /\ serialized
    /\ BothSaved
    /\ LET rules == loadPathRulesConfig(file).rules
       IN  Len(rules) >= 2 /\ SubSeq(rules, Len(rules) - 1, Len(rules)) = <<EntryB, EntryA>>

(***************************************************************************)
(* Properties of the read path                                             *)
(***************************************************************************)
\* the enabled rules of the set that match the working directory
enabledMatching(rules) ==
    SelectSeq(rules, LAMBDA r :
        /\ r.enabled # "false"
        /\ matchesPath(r.path, workingDirectory.str, r.match, platform, cwd))

StrictlyBelow(r, s) ==
    /\ IsSegmentPrefix(LocationOf(s.path), LocationOf(r.path))
    /\ LocationOf(s.path) # LocationOf(r.path)

\* C25: of two enabled rules that match the working directory, one on a
\* location strictly below the other's, no match of the upper rule precedes a
\* match of the lower rule, and a match for an entry both encode does not
\* carry the upper rule, however the rule paths are spelled.
C25_MoreSpecificWins ==
    op = "evaluate" =>
        \A i, j \in 1..Len(enabledMatching(config)) :
            LET r == enabledMatching(config)[i]
                s == enabledMatching(config)[j]
            IN  StrictlyBelow(r, s) =>
                    /\ \A k, h \in 1..Len(matches) :
                          (matches[k].rule = s /\ matches[h].rule = r) => h < k
                    /\ labelEntryOf(r) = labelEntryOf(s) =>
                          \A k \in 1..Len(matches) : matches[k].rule # s

\* C26: a match is staged exactly when its entry is not among the labels the
\* call was given and no label given has its bare id: the other matches of
\* the call, their order and the entries staged before it play no part.
C26_OnlyExistingChecked ==
    op = "apply" =>
        \A i \in 1..Len(matches) :
            inSeq(matches[i].labelEntry, newLabels)
                <=> /\ ~inSeq(matches[i].labelEntry, prevLabels.items)
                    /\ ~sharesBareId(matches[i].labelEntry, prevLabels.items)

\* two matches with two values of one label, none among the labels given, were
\* both staged
C26_Witness ==
    /\ op = "apply"
    /\ Len(matches) = 2
    /\ bareIdOf(matches[1].labelEntry) = bareIdOf(matches[2].labelEntry)
    /\ prevLabels.some
    /\ newLabels = <<matches[1].labelEntry, matches[2].labelEntry>>

\* the working directory is the location of the rule (exact), or that location
\* or one below it (prefix)
matchesLocation(r) ==
    IF r.match = "exact"
    THEN LocationOf(r.path) = LocationOf(workingDirectory.str)
    ELSE IsSegmentPrefix(LocationOf(r.path), LocationOf(workingDirectory.str))

\* C27: the entry of every rule that is enabled, whose path matches the
\* working directory under its mode, and whose label is in the tree (or no
\* tree is given), is the labelEntry of a match of the result.
C27_Complete ==
    (op = "evaluate" /\ ~NoDirectory) =>
        \A i \in 1..Len(config) :
            (/\ config[i].enabled # "false"
             /\ matchesLocation(config[i])
             /\ labels.some => config[i].labelId \in idsIn(labels.items))
                => \E k \in 1..Len(matches) : matches[k].labelEntry = labelEntryOf(config[i])

\* C28: a load that follows a save that returned, with no write in between,
\* returns the rules that were saved, each with the same fields, in the same
\* order, also when the save had to create the labels directory.
C28_RoundTrip ==
    (op = "load" /\ savePc = "returned") =>
        /\ ~loaded.raised
        /\ fieldsOf(loaded.rules) = fieldsOf(saveConfig)

\* two rules, one with an undefined and one with a false enabled, were saved
\* into a directory the save created, and loaded
C28_Witness ==
    /\ op = "load"
    /\ savePc = "returned"
    /\ madeDir
    /\ Len(saveConfig) = 2
    /\ saveConfig[1].enabled = JUndefined
    /\ saveConfig[2].enabled = JBoolean("false")
    /\ loaded.rules # saveConfig
    /\ fieldsOf(loaded.rules) = fieldsOf(saveConfig)

(***************************************************************************)
(* Properties of usePathRules                                              *)
(***************************************************************************)
\* C29: a save whose awaited call rejects leaves the hook's config as it was;
\* one whose call resolves makes config the rule set that was saved; a save
\* called without a workspaceId issues no call and leaves config as it was.
C29_SaveKeepsConfigConsistent ==
    [][ /\ (op' = "saveSettled" /\ ipcResult' = "rejected") => hookConfig' = hookConfig
        /\ (op' = "saveSettled" /\ ipcResult' = "resolved") => hookConfig' = saveConfig'
        /\ (op' = "saveCalled" /\ noWorkspace(workspaceId))
              => UNCHANGED <<hookConfig, pending, stores>>
        /\ op' = "saveCalled" => hookConfig' = hookConfig ]_vars

\* a save of another rule set was rejected while config held a loaded rule set
C29_Witness ==
    /\ op = "saveSettled"
    /\ ipcResult = "rejected"
    /\ hookOutcome = "rejected"
    /\ hookConfig # EmptyConfig
    /\ hookConfig # saveConfig
    /\ workspaceId.some
    /\ hookConfig = stores[workspaceId.str]

\* C30: once no getPathRules call is outstanding, config is the result of the
\* latest load or save for the workspaceId the hook is rendered with, or the
\* empty config when that load failed or there is no workspaceId, and
\* isLoading is false.
C30_ShowsActiveWorkspace ==
    (op # "init" /\ \A r \in pending : r.kind # "load") =>
        /\ hookConfig = expected
        /\ ~isLoading

====
